---- MODULE Spec2Model ----
(***************************************************************************)
(* A state-machine model of Model-training.ipynb: the CustomDataset /      *)
(* DataLoader pair, sum_model_layers, CNNLSTMClassifier, the three loop    *)
(* functions train_model, evaluate_model, test_model, and the notebook's   *)
(* three sections (DistilBERT, TinyBERT, ELECTRA) executed top to bottom.  *)
(*                                                                         *)
(* Tensors are modelled by what the claims need of them:                   *)
(*   - an example of a dataset is the pair <<file, index>> it was read     *)
(*     from, so that a prediction or a label can be traced to its example; *)
(*   - a gradient is the set of per-batch contributions accumulated in     *)
(*     .grad, each with the divisor its loss was scaled by; a module's     *)
(*     grad holds the contributions at least one of its parameters holds;  *)
(*   - parameters are a version counter (one increment per optimizer step  *)
(*     that found a gradient on them) and the set of inputs fitted on;     *)
(*   - a hidden state is the index of the encoder layer that produced it   *)
(*     (0 for the embedding output);                                       *)
(*   - a module (an encoder, a classifier) is an object with an identity:  *)
(*     names and the classifier's bert attribute hold the object's id.     *)
(* A call runs on 'cuda' or on 'cpu'.  The two differ in the model in one   *)
(* place: on 'cuda' the backward pass through an nn.LSTM whose forward ran  *)
(* in evaluation mode raises RuntimeError.                                  *)
(* A shuffled dataloader yields, in every epoch, the examples of its        *)
(* dataset in any order: each batch is any sequence of examples the epoch  *)
(* has not yielded yet.                                                    *)
(***************************************************************************)
EXTENDS Integers, Sequences, FiniteSets, TLC

\* ------------------------------------------------------------------ bounds
MaxExamples == 3
MaxBatchSize == 2
MaxAccum == 3
MaxEpochs == 2
MaxCalls == 2
MaxLayers == 12
MaxRows == 2
MaxShuffled == 2
MaxCudaExamples == 1

\* ------------------------------------------------------- program constants
DefaultNumClasses == 2
NotebookBatchSize == 10
NotebookAccumulationSteps == 10
NotebookNumEpochs == 1
DistilbertSummed == 6
TinybertSummed == 4
ElectraSummed == 12
DistilbertLayers == 6
TinybertLayers == 4
ElectraLayers == 12

\* The values a logit takes in the model: enough for a strict order either
\* way and for a tie.
LogitValues == {0, 1}

None == "None"

Min(a, b) == IF a < b THEN a ELSE b
Max(a, b) == IF a > b THEN a ELSE b
CeilDiv(a, b) == (a + b - 1) \div b

\* --------------------------------------------- CustomDataset and DataLoader

\* CustomDataset.__init__: keeps the inputs and the labels it is given.
CustomDataset(inputs, labels) == [inputs |-> inputs, labels |-> labels]

\* CustomDataset.__len__: the number of rows of inputs['input_ids'].
DatasetLen(ds) == ds.inputs.rows

\* CustomDataset.__getitem__: the three fields of one example, all read at idx.
GetItem(ds, idx) ==
    [input_ids      |-> <<ds.inputs.name, idx>>,
     attention_mask |-> <<ds.inputs.name, idx>>,
     labels         |-> <<ds.labels.name, idx>>]

\* DataLoader(dataset, batch_size, shuffle)
DataLoader(ds, batch_size, shuffle) ==
    [dataset |-> ds, batch_size |-> batch_size, shuffle |-> shuffle]

\* len(dataloader) as it would be with drop_last=True: full batches only.
LenDataloaderDropLast(dl) == DatasetLen(dl.dataset) \div dl.batch_size

\* len(dataloader): the number of batches (drop_last is False).
LenDataloader(dl) == CeilDiv(DatasetLen(dl.dataset), dl.batch_size)

\* The i-th batch (0-based) of a sequential dataloader: consecutive examples
\* i*batch_size .. min((i+1)*batch_size, N) - 1, collated in that order.
Batch(dl, i) ==
    LET lo == i * dl.batch_size
        hi == Min((i + 1) * dl.batch_size, DatasetLen(dl.dataset))
    IN  [k \in 1..(hi - lo) |-> GetItem(dl.dataset, lo + k - 1)]

\* The sequences of k distinct elements of the set from.
Draws(from, k) ==
    {s \in [1..k -> from] : \A a, b \in 1..k : a # b => s[a] # s[b]}

\* The batches an epoch can yield next, after it has yielded the examples
\* with the indices in drawn as i batches: the i-th batch in order for a
\* sequential dataloader; for shuffle=True any batch_size of the remaining
\* examples (all of them when fewer remain), in any order.
NextBatches(dl, i, drawn) ==
    IF ~dl.shuffle THEN {Batch(dl, i)}
    ELSE LET rest == (0..(DatasetLen(dl.dataset) - 1)) \ drawn
             k == Min(dl.batch_size, Cardinality(rest))
         IN  {[j \in 1..k |-> GetItem(dl.dataset, idx[j])] : idx \in Draws(rest, k)}

\* The indices of the examples of a batch.
IndicesOf(batch) == {batch[j].input_ids[2] : j \in 1..Len(batch)}

\* ------------------------------------------------------- the encoder (bert)

\* self.bert(..., output_hidden_states=True).hidden_states: the embedding
\* output (0) followed by the output of each of the encoder's layers (1..L).
HiddenStates(bert) == [k \in 1..(bert.num_layers + 1) |-> k - 1]

\* hidden_states[-k:] : the last k elements, or all of them when fewer.
LastK(s, k) == SubSeq(s, Max(1, Len(s) - k + 1), Len(s))

\* A variant of sum_model_layers whose final branch sums like 'electra'
\* instead of raising.
sum_model_layers_no_raise(model_name, hidden_states) ==
    IF model_name = "distilbert"
    THEN [raised |-> None, summed |-> LastK(hidden_states, DistilbertSummed)]
    ELSE IF model_name = "tinybert"
    THEN [raised |-> None, summed |-> LastK(hidden_states, TinybertSummed)]
    ELSE [raised |-> None, summed |-> LastK(hidden_states, ElectraSummed)]

\* A variant of sum_model_layers whose 'tinybert' branch keeps the count of
\* the 'distilbert' branch it was copied from.
sum_model_layers_copied_count(model_name, hidden_states) ==
    IF model_name = "distilbert"
    THEN [raised |-> None, summed |-> LastK(hidden_states, DistilbertSummed)]
    ELSE IF model_name = "tinybert"
    THEN [raised |-> None, summed |-> LastK(hidden_states, DistilbertSummed)]
    ELSE IF model_name = "electra"
    THEN [raised |-> None, summed |-> LastK(hidden_states, ElectraSummed)]
    ELSE [raised |-> "ValueError", summed |-> <<>>]

\* sum_model_layers: which hidden states are stacked and summed, or ValueError.
sum_model_layers(model_name, hidden_states) ==
    IF model_name = "distilbert"
    THEN [raised |-> None, summed |-> LastK(hidden_states, DistilbertSummed)]
    ELSE IF model_name = "tinybert"
    THEN [raised |-> None, summed |-> LastK(hidden_states, TinybertSummed)]
    ELSE IF model_name = "electra"
    THEN [raised |-> None, summed |-> LastK(hidden_states, ElectraSummed)]
    ELSE [raised |-> "ValueError", summed |-> <<>>]

\* ------------------------------------------------------- CNNLSTMClassifier

\* CNNLSTMClassifier.__init__: stores model_name and bert (the encoder object
\* it is given, not a copy) unvalidated and builds the head; a new nn.Module
\* is in training mode, bert keeps the mode it arrives in.  version/fitted
\* stand for the values of the head's parameters, grad for their .grad.
CNNLSTMClassifier(model_name, bert, num_classes) ==
    [model_name  |-> model_name,
     bert        |-> bert,
     num_classes |-> num_classes,
     training    |-> TRUE,
     version     |-> 0,
     fitted      |-> {},
     grad        |-> {}]

\* A pretrained encoder with its own mode, parameters and gradients.
Encoder(num_layers, training) ==
    [num_layers |-> num_layers, training |-> training,
     version |-> 0, fitted |-> {}, grad |-> {}]

\* The classifier objects among the modules ms.
ClassifiersOf(ms) == {id \in DOMAIN ms : "model_name" \in DOMAIN ms[id]}

\* A classifier together with the encoder its bert attribute refers to.
Module(ms, id) == [ms[id] EXCEPT !.bert = ms[ms[id].bert]]

\* nn.Module.train(mode) on a classifier: sets the flag on the module and on
\* every submodule.
SetMode(ms, id, mode) ==
    [ms EXCEPT ![id].training = mode, ![ms[id].bert].training = mode]

\* A variant of forward without the set_grad_enabled(self.bert.training)
\* context of line 117: the encoder records a graph whenever the caller does.
forward_without_set_grad_enabled(m, batch, grad_enabled) ==
    LET hidden_states == HiddenStates(m.bert)
        s == sum_model_layers(m.model_name, hidden_states)
    IN  [ran          |-> TRUE,
         raised       |-> s.raised,
         n_hidden     |-> Len(hidden_states),
         summed       |-> s.summed,
         hidden_graph |-> grad_enabled,
         bert_graph   |-> grad_enabled /\ s.raised = None,
         head_graph   |-> grad_enabled /\ s.raised = None,
         inputs       |-> [k \in 1..Len(batch) |-> batch[k].input_ids]]

\* CNNLSTMClassifier.forward on a batch, with the ambient grad mode of the
\* caller; m is the classifier with its encoder.  The encoder runs first,
\* inside set_grad_enabled(bert.training), which replaces the ambient mode
\* for the block: its hidden states carry an autograd graph to the encoder's
\* parameters exactly when bert.training (hidden_graph), whatever the caller's
\* mode.  Then sum_model_layers, which may raise; the head runs in the
\* ambient mode, restored at the end of the block.
\* bert_graph / head_graph: whether the returned logits carry an autograd
\* graph reaching the encoder's / the head's parameters; under no_grad the
\* head's operations record nothing, so the logits carry neither.
forward(m, batch, grad_enabled) ==
    LET hidden_states == HiddenStates(m.bert)
        s == sum_model_layers(m.model_name, hidden_states)
    IN  [ran          |-> TRUE,
         raised       |-> s.raised,
         n_hidden     |-> Len(hidden_states),
         summed       |-> s.summed,
         hidden_graph |-> m.bert.training,
         bert_graph   |-> grad_enabled /\ m.bert.training /\ s.raised = None,
         head_graph   |-> grad_enabled /\ s.raised = None,
         inputs       |-> [k \in 1..Len(batch) |-> batch[k].input_ids]]

\* No forward pass has been made yet.
NoForward == [ran |-> FALSE]

\* The values the logits of k inputs can take: one row of num_classes each.
LogitRows(m, k) == [1..k -> [1..m.num_classes -> LogitValues]]

\* The index of the first minimal entry instead of the first maximal one.
ArgMin(row) ==
    (CHOOSE j \in 1..Len(row) :
        /\ \A k \in 1..Len(row) : row[j] <= row[k]
        /\ \A k \in 1..(j - 1) : row[k] > row[j]) - 1

\* torch.max(outputs, dim=1)[1]: per row the 0-based index of the first
\* maximal entry.
ArgMax(row) ==
    (CHOOSE j \in 1..Len(row) :
        /\ \A k \in 1..Len(row) : row[j] >= row[k]
        /\ \A k \in 1..(j - 1) : row[k] < row[j]) - 1

TorchMaxIndices(outputs) == [k \in 1..Len(outputs) |-> ArgMax(outputs[k])]

\* ------------------------------------------------------ floating point
\* A float is modelled by the exact value it holds.  The loss tensors are
\* float32 (24-bit significands); loss.item(), total_loss and avg_loss are
\* Python floats (doubles, 53-bit significands).  A value whose numerator
\* and denominator fit the model's integers is the record [num, den] in
\* lowest terms; a double with a longer significand is the record
\* [num_hi, num_lo, den_exp], standing for
\*     (num_hi * 2^26 + num_lo) / 2^den_exp
\* with the numerator odd unless den_exp = 0, i.e. the pair
\* float.as_integer_ratio() gives.  Overflow, underflow and NaN are outside
\* the values of the model.

RECURSIVE GCD(_, _)
GCD(a, b) == IF b = 0 THEN a ELSE GCD(b, a % b)

RECURSIVE Pow2(_)
Pow2(n) == IF n = 0 THEN 1 ELSE 2 * Pow2(n - 1)

\* The limb size of a double's numerator.
Limb == Pow2(26)

\* n / d rounded to the nearest integer, ties to the even one.
RoundHalfEven(n, d) ==
    LET q == n \div d
        r == n % d
    IN  IF (2 * r > d) \/ (2 * r = d /\ q % 2 = 1) THEN q + 1 ELSE q

\* A non-negative rational in lowest terms.
Rat(n, d) == LET g == GCD(n, d) IN [num |-> n \div g, den |-> d \div g]

\* total_loss += x (line 167): the sum of two doubles, which is exact for
\* the values of the model (the sum needs fewer than 53 bits).
RatAdd(x, y) ==
    LET g == GCD(x.den, y.den)
    IN  Rat(x.num * (y.den \div g) + y.num * (x.den \div g), (x.den \div g) * y.den)

\* A variant of line 167 that adds the scaled loss as it is, without
\* multiplying it by accumulation_steps.
RatMulLeftOut(x, k) == x

\* loss.item() * accumulation_steps (line 167): a float32 value converted to
\* a double (exact) times an integer; the product is exact in a double for
\* the values of the model (24 bits times a small integer).
RatMul(x, k) == Rat(x.num * k, x.den)

\* The least significand of a normal float32: 24 bits with the top one set.
Significand32 == Pow2(23)

\* The least power of two p >= 1 with (n / d) * p >= 2^23: the denominator
\* of the float32 nearest to n / d, for 0 < n / d < 2^24.
RECURSIVE Float32Scale(_, _, _)
Float32Scale(n, d, p) ==
    IF n * p >= Significand32 * d THEN p ELSE Float32Scale(n, d, 2 * p)

\* loss / accumulation_steps (line 165) on a float32 tensor: the quotient
\* rounded to the nearest float32 (24-bit significand, ties to even).
Float32Div(x, k) ==
    IF x.num = 0 THEN Rat(0, 1)
    ELSE LET p == Float32Scale(x.num, x.den * k, 1)
         IN  Rat(RoundHalfEven(x.num * p, x.den * k), p)

\* A double from a numerator in two limbs and a number of fraction bits,
\* reduced to an odd numerator.
RECURSIVE Float64(_, _, _)
Float64(hi, lo, e) ==
    IF e > 0 /\ lo % 2 = 0
    THEN Float64(hi \div 2, (lo \div 2) + (hi % 2) * (Limb \div 2), e - 1)
    ELSE [num_hi |-> hi, num_lo |-> lo, den_exp |-> e]

\* The significand of n / d, one bit at a time from the integer part hi:lo
\* and the remainder r, until it has 53 bits or the division is exact; then
\* rounded to nearest, ties to even, on the remainder.
RECURSIVE Float64Bits(_, _, _, _, _)
Float64Bits(hi, lo, r, d, e) ==
    IF r = 0 THEN Float64(hi, lo, e)
    ELSE IF hi >= Limb
    THEN LET up == (2 * r > d) \/ (2 * r = d /\ lo % 2 = 1)
             lo1 == IF up THEN lo + 1 ELSE lo
         IN  Float64(hi + (lo1 \div Limb), lo1 % Limb, e)
    ELSE LET bit == IF 2 * r >= d THEN 1 ELSE 0
             lo1 == 2 * lo + bit
         IN  Float64Bits(2 * hi + (lo1 \div Limb), lo1 % Limb,
                         2 * r - bit * d, d, e + 1)

\* total_loss / len(dataloader) (line 173): a double divided by an integer,
\* rounded to the nearest double (53-bit significand, ties to even).
Float64Div(x, k) ==
    LET d == x.den * k
        q == x.num \div d
    IN  Float64Bits(q \div Limb, q % Limb, x.num % d, d, 0)

\* The values criterion(outputs, labels) takes in the model.
LossValues == {1, 2}

\* loss / accumulation_steps (line 165) for every criterion value and every
\* accumulation_steps a call of the model is made with, computed once.
ScaledLoss ==
    [value \in LossValues, accumulation_steps \in 1..Max(MaxAccum, NotebookAccumulationSteps)
        |-> Float32Div(Rat(value, 1), accumulation_steps)]

\* ------------------------------------------------------------------- state

VARIABLES
    cell,        \* the caller's position: statements completed so far
    globals,     \* the notebook's global names and the values bound to them
    disk,        \* files: path -> content
    models,      \* classifier objects: id -> CNNLSTMClassifier
    optimizers,  \* optimizer objects: id -> [params, step_count]
    pc,          \* control position: "idle", a position in a function, "returned", "raised"
    frame,       \* the locals of the function being executed
    log          \* the statements the notebook has executed, in order

vars == <<cell, globals, disk, models, optimizers, pc, frame, log>>

NoFrame == [fn |-> None]

\* AdamW(model.parameters()): an optimizer over the parameters of one model.
AdamW(model_id) == [params |-> model_id, step_count |-> 0]

\* ------------------------------------------------------------- train_model

\* The binding of train_model's parameters at the call.  entry is the model
\* as the call received it; criterion_sum is the exact sum of the values
\* criterion has returned in the current epoch; drawn are the indices of the
\* examples the dataloader has yielded in the current epoch.
TrainFrame(model_id, dataloader, optimizer_id, num_epochs, accumulation_steps, device, targets) ==
    [fn |-> "train_model", model |-> model_id, dataloader |-> dataloader,
     optimizer |-> optimizer_id, num_epochs |-> num_epochs,
     accumulation_steps |-> accumulation_steps, device |-> device,
     entry |-> Module(models, model_id),
     epoch |-> 0, i |-> 0, total_loss |-> Rat(0, 1), avg_loss |-> None,
     criterion_sum |-> 0, drawn |-> {},
     steps |-> <<>>, backwards |-> 0, last_forward |-> NoForward,
     targets |-> targets, result |-> None, raised |-> None]

\* optimizer.zero_grad(): clears .grad on every parameter the optimizer holds.
ZeroGrad(ms, optimizer) ==
    [ms EXCEPT ![optimizer.params].grad = {},
               ![ms[optimizer.params].bert].grad = {}]

\* optimizer.step(): updates every parameter it holds that has a gradient.
OptimizerStep(ms, optimizer) ==
    LET Stepped(module) ==
            IF module.grad = {} THEN module
            ELSE [module EXCEPT !.version = @ + 1,
                                !.fitted = @ \cup {c.data : c \in module.grad}]
    IN  [ms EXCEPT ![optimizer.params] = Stepped(@),
                   ![ms[optimizer.params].bert] = Stepped(@)]

\* The devices a call can be made on: 'cuda' (nn.LSTM runs on cuDNN) and 'cpu'.
Devices == {"cuda", "cpu"}

\* Whether loss.backward() raises: the cuDNN backward of nn.LSTM (line 112)
\* refuses a forward that ran with the module in evaluation mode
\* ("cudnn RNN backward can only be called in training mode").  The native
\* CPU implementation has no such restriction.
BackwardRaises(m, out, device) ==
    device = "cuda" /\ out.head_graph /\ ~m.training

\* loss.backward() (line 166): the outcomes, each the exception raised (or
\* None) and the modules after it.  Without an exception the gradient of
\* this batch's (scaled) loss is added to .grad of every parameter in the
\* recorded graph.  When the LSTM's backward raises, the nodes of the graph
\* before it (the linear layer's) may have run: the head holds the
\* contribution on some of its parameters or on none, and the encoder, which
\* lies behind the LSTM, received nothing.
Backward(ms, model_id, out, contribution, device) ==
    IF BackwardRaises(Module(ms, model_id), out, device)
    THEN {[raised |-> "RuntimeError", models |-> after] :
             after \in {ms, [ms EXCEPT ![model_id].grad = @ \cup {contribution}]}}
    ELSE {[raised |-> None,
           models |-> [ms EXCEPT
               ![model_id].grad =
                   IF out.head_graph THEN @ \cup {contribution} ELSE @,
               ![ms[model_id].bert].grad =
                   IF out.bert_graph THEN @ \cup {contribution} ELSE @]]}

\* A variant of the condition of line 169 without its second disjunct: the
\* batches after the last full group are never stepped.
StepDueNoTail(i, accumulation_steps, n_batches) ==
    (i + 1) % accumulation_steps = 0

\* A variant of the condition of line 169 that tests i instead of i + 1.
StepDueOffByOne(i, accumulation_steps, n_batches) ==
    (i % accumulation_steps = 0) \/ (i + 1 = n_batches)

\* The condition of line 169.
StepDue(i, accumulation_steps, n_batches) ==
    ((i + 1) % accumulation_steps = 0) \/ (i + 1 = n_batches)

\* A variant of train_model without line 155: the gradients the parameters
\* carry at the call stay on them.
train_model_enter_no_zero_grad ==
    /\ pc = "train_model:enter"
    /\ pc' = "train_model:epoch"
    /\ UNCHANGED <<log, cell, globals, disk, models, optimizers, frame>>

\* Line 155: optimizer.zero_grad() before the first epoch.
train_model_enter ==
    /\ pc = "train_model:enter"
    /\ models' = ZeroGrad(models, optimizers[frame.optimizer])
    /\ pc' = "train_model:epoch"
    /\ UNCHANGED <<log, cell, globals, disk, optimizers, frame>>

\* Lines 156-158: the next epoch begins; total_loss = 0, and the dataloader
\* starts a new pass over the dataset.
train_model_epoch ==
    /\ pc = "train_model:epoch"
    /\ frame.epoch < frame.num_epochs
    /\ frame' = [frame EXCEPT !.total_loss = Rat(0, 1), !.i = 0,
                              !.criterion_sum = 0, !.drawn = {}]
    /\ pc' = "train_model:batch"
    /\ UNCHANGED <<log, cell, globals, disk, models, optimizers>>

\* Lines 158-167: one batch: forward, criterion, scaling, backward, running
\* total.  The forward (line 163) or the backward (line 166) may raise; the
\* exception leaves the function and nothing after it runs.
train_model_batch ==
    /\ pc = "train_model:batch"
    /\ frame.i < LenDataloader(frame.dataloader)
    /\ LET m == Module(models, frame.model)
       IN \E batches \in NextBatches(frame.dataloader, frame.i, frame.drawn),
             criterion_value \in LossValues :
            LET out == forward(m, batches, TRUE)
                loss == ScaledLoss[criterion_value, frame.accumulation_steps]
                contribution == [data    |-> frame.dataloader.dataset.inputs.name,
                                 epoch   |-> frame.epoch,
                                 batch   |-> frame.i,
                                 divisor |-> frame.accumulation_steps]
            IN IF out.raised # None
               THEN /\ pc' = "raised"
                    /\ frame' = [frame EXCEPT !.raised = out.raised,
                                              !.last_forward = out,
                                              !.drawn = @ \cup IndicesOf(batches)]
                    /\ UNCHANGED models
               ELSE \E b \in Backward(models, frame.model, out, contribution,
                                       frame.device) :
                    /\ models' = b.models
                    /\ IF b.raised # None
                       THEN /\ pc' = "raised"
                            /\ frame' = [frame EXCEPT
                                  !.raised = b.raised,
                                  !.last_forward = out,
                                  !.drawn = @ \cup IndicesOf(batches)]
                       ELSE /\ pc' = "train_model:check"
                            /\ frame' = [frame EXCEPT
                                  !.last_forward = out,
                                  !.drawn = @ \cup IndicesOf(batches),
                                  !.backwards = @ + 1,
                                  !.criterion_sum = @ + criterion_value,
                                  !.total_loss =
                                      RatAdd(@, RatMul(loss, frame.accumulation_steps))]
    /\ UNCHANGED <<log, cell, globals, disk, optimizers>>

\* Lines 169-171: after the backward pass, step and clear when the step is due.
train_model_check ==
    /\ pc = "train_model:check"
    /\ LET optimizer == optimizers[frame.optimizer]
           due == StepDue(frame.i, frame.accumulation_steps,
                          LenDataloader(frame.dataloader))
       IN IF due
          THEN /\ models' = ZeroGrad(OptimizerStep(models, optimizer), optimizer)
               /\ optimizers' = [optimizers EXCEPT
                                    ![frame.optimizer].step_count = @ + 1]
               /\ frame' = [frame EXCEPT
                     !.i = @ + 1,
                     !.steps = Append(@,
                         [epoch |-> frame.epoch, after |-> frame.i,
                          group |-> Module(models, optimizer.params).grad,
                          bert_group |-> Module(models, optimizer.params).bert.grad])]
          ELSE /\ frame' = [frame EXCEPT !.i = @ + 1]
               /\ UNCHANGED <<models, optimizers>>
    /\ pc' = "train_model:batch"
    /\ UNCHANGED <<log, cell, globals, disk>>

\* A variant of lines 173-174 that reports 0 for an epoch without batches
\* instead of dividing by len(dataloader).
train_model_epoch_end_guarded ==
    /\ pc = "train_model:batch"
    /\ frame.i >= LenDataloader(frame.dataloader)
    /\ pc' = "train_model:epoch"
    /\ frame' = [frame EXCEPT
          !.avg_loss = IF LenDataloader(frame.dataloader) = 0 THEN Float64(0, 0, 0)
                       ELSE Float64Div(frame.total_loss,
                                       LenDataloader(frame.dataloader)),
          !.epoch = @ + 1]
    /\ UNCHANGED <<log, cell, globals, disk, models, optimizers>>

\* Lines 173-174: the dataloader is exhausted; avg_loss = total_loss / len(dataloader).
train_model_epoch_end ==
    /\ pc = "train_model:batch"
    /\ frame.i >= LenDataloader(frame.dataloader)
    /\ IF LenDataloader(frame.dataloader) = 0
       THEN /\ pc' = "raised"
            /\ frame' = [frame EXCEPT !.raised = "ZeroDivisionError"]
       ELSE /\ pc' = "train_model:epoch"
            /\ frame' = [frame EXCEPT
                  !.avg_loss = Float64Div(frame.total_loss,
                                          LenDataloader(frame.dataloader)),
                  !.epoch = @ + 1]
    /\ UNCHANGED <<log, cell, globals, disk, models, optimizers>>

\* Line 176: return model.
train_model_return ==
    /\ pc = "train_model:epoch"
    /\ frame.epoch >= frame.num_epochs
    /\ frame' = [frame EXCEPT !.result = frame.model]
    /\ pc' = "returned"
    /\ UNCHANGED <<log, cell, globals, disk, models, optimizers>>

\* ------------------------------------------- evaluate_model and test_model

\* The binding of evaluate_model's / test_model's parameters at the call.
PredictFrame(fn, model_id, dataloader, targets) ==
    [fn |-> fn, model |-> model_id, dataloader |-> dataloader,
     b |-> 0, predictions |-> <<>>, true_labels |-> <<>>, outputs |-> <<>>,
     last_forward |-> NoForward,
     targets |-> targets, result |-> None, raised |-> None]

\* A variant of the entry of evaluate_model / test_model that also clears the
\* gradients accumulated on the model (model.zero_grad()).
PredictEnterZeroGrad(fn) ==
    /\ pc = fn \o ":enter"
    /\ models' = [SetMode(models, frame.model, FALSE) EXCEPT
                     ![frame.model].grad = {},
                     ![models[frame.model].bert].grad = {}]
    /\ frame' = [frame EXCEPT !.predictions = <<>>, !.true_labels = <<>>]
    /\ pc' = fn \o ":batch"
    /\ UNCHANGED <<log, cell, globals, disk, optimizers>>

\* Lines 186-187 / 212-213: model.eval(); predictions, true_labels = [], [].
PredictEnter(fn) ==
    /\ pc = fn \o ":enter"
    /\ models' = SetMode(models, frame.model, FALSE)
    /\ frame' = [frame EXCEPT !.predictions = <<>>, !.true_labels = <<>>]
    /\ pc' = fn \o ":batch"
    /\ UNCHANGED <<log, cell, globals, disk, optimizers>>

\* preds.cpu().numpy() as list items: one class index per input of the batch,
\* each tagged with the input it was computed from.
PredsOf(out, outputs) ==
    LET preds == TorchMaxIndices(outputs)
    IN  [k \in 1..Len(preds) |-> [of |-> out.inputs[k], class |-> preds[k]]]

\* Lines 190-199 / 216-225: one batch under torch.no_grad(): forward, argmax,
\* and both lists extended.
PredictBatch(fn) ==
    /\ pc = fn \o ":batch"
    /\ frame.b < LenDataloader(frame.dataloader)
    /\ LET m == Module(models, frame.model)
           batches == Batch(frame.dataloader, frame.b)
       IN \E outputs \in LogitRows(m, Len(batches)) :
            LET out == forward(m, batches, FALSE)
                labels == [k \in 1..Len(batches) |-> batches[k].labels]
            IN IF out.raised # None
               THEN /\ pc' = "raised"
                    /\ frame' = [frame EXCEPT !.raised = out.raised,
                                              !.last_forward = out]
               ELSE /\ pc' = fn \o ":batch"
                    /\ frame' = [frame EXCEPT
                          !.last_forward = out,
                          !.outputs = outputs,
                          !.predictions = @ \o PredsOf(out, outputs),
                          !.true_labels = @ \o labels,
                          !.b = @ + 1]
    /\ UNCHANGED <<log, cell, globals, disk, models, optimizers>>

\* Lines 201-202 / 227-229: the report, and the value returned.
PredictReturn(fn, result) ==
    /\ pc = fn \o ":batch"
    /\ frame.b >= LenDataloader(frame.dataloader)
    /\ frame' = [frame EXCEPT !.result = result]
    /\ pc' = "returned"
    /\ UNCHANGED <<log, cell, globals, disk, models, optimizers>>

evaluate_model_enter == PredictEnter("evaluate_model")
evaluate_model_batch == PredictBatch("evaluate_model")
evaluate_model_return == PredictReturn("evaluate_model", None)

test_model_enter == PredictEnter("test_model")
test_model_batch == PredictBatch("test_model")
test_model_return ==
    PredictReturn("test_model", <<frame.predictions, frame.true_labels>>)

\* ------------------------------------------------------ the calling statement

\* The names a call's result is assigned to: none, one, or a pair unpacked.
Bind(g, targets, result) ==
    IF Len(targets) = 0 THEN g
    ELSE IF Len(targets) = 1 THEN (targets[1] :> result) @@ g
    ELSE (targets[1] :> result[1]) @@ (targets[2] :> result[2]) @@ g

\* The call has returned: the statement that made it assigns the result and
\* the caller moves on.
AssignResult ==
    /\ pc = "returned"
    /\ globals' = Bind(globals, frame.targets, frame.result)
    /\ frame' = NoFrame
    /\ pc' = "idle"
    /\ cell' = cell + 1
    /\ UNCHANGED <<log, disk, models, optimizers>>

FunctionStep ==
    \/ train_model_enter
    \/ train_model_epoch
    \/ train_model_batch
    \/ train_model_check
    \/ train_model_epoch_end
    \/ train_model_return
    \/ evaluate_model_enter
    \/ evaluate_model_batch
    \/ evaluate_model_return
    \/ test_model_enter
    \/ test_model_batch
    \/ test_model_return
    \/ AssignResult

\* ------------------------------------------------- any sequence of calls
\* One classifier (the notebook's first, over an encoder in either mode) and
\* one optimizer over its parameters, with or without gradients left on the
\* parameters by earlier code; a caller that makes
\* up to MaxCalls calls of train_model, evaluate_model, test_model and
\* model.train() in any order, on dataloaders of any size within the bounds
\* (train_model on sequential dataloaders of up to MaxExamples examples and
\* on shuffled ones of up to MaxShuffled), on either device ('cuda' on
\* dataloaders of up to MaxCudaExamples examples: a call on 'cuda' differs
\* from one on 'cpu' in its first backward pass or not at all).

TheModel == "model"
TheEncoder == "bert"
TheOptimizer == "optimizer"

\* A gradient left on the parameters by code that ran before the call.
StaleGrad == {[data |-> "stale", epoch |-> 0, batch |-> 0, divisor |-> 1]}

Tensors(name, rows) == [name |-> name, rows |-> rows]

AnyDataloader(rows, batch_size, shuffle) ==
    DataLoader(CustomDataset(Tensors("inputs", rows), Tensors("labels", rows)),
               batch_size, shuffle)

Init ==
    /\ cell = 0
    /\ globals = <<>>
    /\ disk = <<>>
    /\ \E bert_training \in BOOLEAN, stale \in BOOLEAN :
         LET m == CNNLSTMClassifier("distilbert", TheEncoder, DefaultNumClasses)
             bert == Encoder(DistilbertLayers, bert_training)
             g == IF stale THEN StaleGrad ELSE {}
         IN models = (TheModel :> [m EXCEPT !.grad = g])
                     @@ (TheEncoder :> [bert EXCEPT !.grad = g])
    /\ optimizers = (TheOptimizer :> AdamW(TheModel))
    /\ pc = "idle"
    /\ frame = NoFrame
    /\ log = <<>>

CallTrain ==
    /\ pc = "idle" /\ cell < MaxCalls
    /\ TheModel \in DOMAIN models
    /\ \E rows \in 0..MaxExamples, batch_size \in 1..MaxBatchSize,
          num_epochs \in 0..MaxEpochs, accumulation_steps \in 1..MaxAccum,
          shuffle \in BOOLEAN, device \in Devices :
         /\ shuffle => rows <= MaxShuffled
         /\ (device = "cuda") => rows <= MaxCudaExamples
         /\ frame' = TrainFrame(TheModel, AnyDataloader(rows, batch_size, shuffle),
                                TheOptimizer, num_epochs, accumulation_steps,
                                device, <<>>)
    /\ pc' = "train_model:enter"
    /\ UNCHANGED <<log, cell, globals, disk, models, optimizers>>

CallEvaluate ==
    /\ pc = "idle" /\ cell < MaxCalls
    /\ TheModel \in DOMAIN models
    /\ \E rows \in 1..MaxExamples, batch_size \in 1..MaxBatchSize :
         frame' = PredictFrame("evaluate_model", TheModel,
                               AnyDataloader(rows, batch_size, FALSE), <<>>)
    /\ pc' = "evaluate_model:enter"
    /\ UNCHANGED <<log, cell, globals, disk, models, optimizers>>

CallTest ==
    /\ pc = "idle" /\ cell < MaxCalls
    /\ TheModel \in DOMAIN models
    /\ \E rows \in 1..MaxExamples, batch_size \in 1..MaxBatchSize :
         frame' = PredictFrame("test_model", TheModel,
                               AnyDataloader(rows, batch_size, FALSE), <<>>)
    /\ pc' = "test_model:enter"
    /\ UNCHANGED <<log, cell, globals, disk, models, optimizers>>

\* model.train()
CallModelTrain ==
    /\ pc = "idle" /\ cell < MaxCalls
    /\ TheModel \in DOMAIN models
    /\ models' = SetMode(models, TheModel, TRUE)
    /\ cell' = cell + 1
    /\ UNCHANGED <<log, globals, disk, optimizers, pc, frame>>

Next ==
    \/ CallTrain
    \/ CallEvaluate
    \/ CallTest
    \/ CallModelTrain
    \/ FunctionStep

Spec == Init /\ [][Next]_vars

\* ------------------------------------------ the notebook, top to bottom

\* The names and files of the three sections.
Variants ==
    <<[model_name |-> "distilbert", pretrained_layers |-> DistilbertLayers,
       encoder_var |-> "distilbert",
       train_inputs_var |-> "train_DB_inputs", train_inputs_file |-> "intermediates/DB_inputs.pt",
       dev_inputs_var |-> "dev_DB_inputs", dev_inputs_file |-> "intermediates/DB_dev_inputs.pt",
       test_inputs_var |-> "test_DB_inputs", test_inputs_file |-> "intermediates/DB_test_inputs.pt",
       model_var |-> "DB_model", model_file |-> "models/DB_model.pt",
       encoder_obj |-> "DistilBertModel#DB",
       model_obj |-> "CNNLSTMClassifier#DB", loaded_obj |-> "CNNLSTMClassifier#DB.loaded",
       loaded_encoder_obj |-> "CNNLSTMClassifier#DB.loaded.bert",
       optimizer_obj |-> "AdamW#DB",
       preds_var |-> "DB_preds", true_labels_var |-> "DB_true_labels",
       preds_file |-> "predictions/DB_preds.pt"],
      [model_name |-> "tinybert", pretrained_layers |-> TinybertLayers,
       encoder_var |-> "tinybert",
       train_inputs_var |-> "train_TB_inputs", train_inputs_file |-> "intermediates/TB_inputs.pt",
       dev_inputs_var |-> "dev_TB_inputs", dev_inputs_file |-> "intermediates/TB_dev_inputs.pt",
       test_inputs_var |-> "test_TB_inputs", test_inputs_file |-> "intermediates/TB_test_inputs.pt",
       model_var |-> "TB_model", model_file |-> "models/TB_model.pt",
       encoder_obj |-> "AutoModel#TB",
       model_obj |-> "CNNLSTMClassifier#TB", loaded_obj |-> "CNNLSTMClassifier#TB.loaded",
       loaded_encoder_obj |-> "CNNLSTMClassifier#TB.loaded.bert",
       optimizer_obj |-> "AdamW#TB",
       preds_var |-> "TB_preds", true_labels_var |-> "TB_true_labels",
       preds_file |-> "predictions/TB_preds.pt"],
      [model_name |-> "electra", pretrained_layers |-> ElectraLayers,
       encoder_var |-> "electra",
       train_inputs_var |-> "train_EL_inputs", train_inputs_file |-> "intermediates/EL_inputs.pt",
       dev_inputs_var |-> "dev_EL_inputs", dev_inputs_file |-> "intermediates/EL_dev_inputs.pt",
       test_inputs_var |-> "test_EL_inputs", test_inputs_file |-> "intermediates/EL_test_inputs.pt",
       model_var |-> "EL_model", model_file |-> "models/EL_model.pt",
       encoder_obj |-> "ElectraModel#EL",
       model_obj |-> "CNNLSTMClassifier#EL", loaded_obj |-> "CNNLSTMClassifier#EL.loaded",
       loaded_encoder_obj |-> "CNNLSTMClassifier#EL.loaded.bert",
       optimizer_obj |-> "AdamW#EL",
       preds_var |-> "EL_preds", true_labels_var |-> "EL_true_labels",
       preds_file |-> "predictions/EL_preds.pt"]>>

TrainLabelsFile == "intermediates/labels.pt"
DevLabelsFile == "intermediates/labels_dev.pt"
TestLabelsFile == "intermediates/labels_test.pt"

\* The code cells of one section, in notebook order.
SectionCells ==
    <<"load", "dataloaders", "from_pretrained", "setup", "train",
      "save_model", "load_model", "evaluate", "test", "save_preds">>

NotebookLen == Len(Variants) * Len(SectionCells)

\* The section and the cell within it that runs next.
CurrentVariant == Variants[(cell \div Len(SectionCells)) + 1]
CurrentCell == SectionCells[(cell % Len(SectionCells)) + 1]

\* A cell runs in a session whose working directory holds the input files.
AtCell(name) ==
    /\ pc = "idle" /\ cell < NotebookLen /\ CurrentCell = name
    /\ TrainLabelsFile \in DOMAIN disk

\* Rebinding several global names at once.
Rebind(g, names, values) ==
    [n \in DOMAIN g \cup {names[k] : k \in 1..Len(names)} |->
        IF \E k \in 1..Len(names) : names[k] = n
        THEN values[CHOOSE k \in 1..Len(names) : names[k] = n]
        ELSE g[n]]

\* The files the notebook reads: the three variants' tokenized inputs and the
\* labels, one row per example of the split.
InputFiles(train_rows, dev_rows, test_rows) ==
    LET files ==
          {<<Variants[v].train_inputs_file, train_rows>> : v \in 1..Len(Variants)}
          \cup {<<Variants[v].dev_inputs_file, dev_rows>> : v \in 1..Len(Variants)}
          \cup {<<Variants[v].test_inputs_file, test_rows>> : v \in 1..Len(Variants)}
          \cup {<<TrainLabelsFile, train_rows>>, <<DevLabelsFile, dev_rows>>,
                <<TestLabelsFile, test_rows>>}
    IN  [path \in {f[1] : f \in files} |->
            Tensors(path, (CHOOSE f \in files : f[1] = path)[2])]

InitNotebook ==
    /\ cell = 0
    /\ globals = <<>>
    /\ \E train_rows \in 1..MaxRows, dev_rows \in 1..MaxRows,
          test_rows \in 1..MaxRows :
         disk = InputFiles(train_rows, dev_rows, test_rows)
    /\ models = <<>>
    /\ optimizers = <<>>
    /\ pc = "idle"
    /\ frame = NoFrame
    /\ log = <<>>

\* Lines 245-251: torch.load of the section's inputs and of the labels.
CellLoad ==
    /\ AtCell("load")
    /\ LET v == CurrentVariant
       IN /\ globals' = Rebind(globals,
                <<v.train_inputs_var, v.dev_inputs_var, v.test_inputs_var,
                  "train_labels", "dev_labels", "test_labels">>,
                <<disk[v.train_inputs_file], disk[v.dev_inputs_file],
                  disk[v.test_inputs_file],
                  disk[TrainLabelsFile], disk[DevLabelsFile], disk[TestLabelsFile]>>)
          /\ log' = Append(log, <<"load", v.train_inputs_file, v.dev_inputs_file,
                                  v.test_inputs_file>>)
    /\ cell' = cell + 1
    /\ UNCHANGED <<disk, models, optimizers, pc, frame>>

\* A variant of lines 260-262 in which every section keeps the input names of
\* the first section it was copied from.
SectionDatasetsOfFirst(v, g) ==
    [train |-> CustomDataset(g[Variants[1].train_inputs_var], g["train_labels"]),
     dev   |-> CustomDataset(g[Variants[1].dev_inputs_var], g["dev_labels"]),
     test  |-> CustomDataset(g[Variants[1].test_inputs_var], g["test_labels"])]

\* Lines 260-262: the section's datasets, from the inputs the section loaded
\* and the labels.
SectionDatasets(v, g) ==
    [train |-> CustomDataset(g[v.train_inputs_var], g["train_labels"]),
     dev   |-> CustomDataset(g[v.dev_inputs_var], g["dev_labels"]),
     test  |-> CustomDataset(g[v.test_inputs_var], g["test_labels"])]

\* Lines 260-266: the three datasets and their dataloaders.
CellDataloaders ==
    /\ AtCell("dataloaders")
    /\ LET v == CurrentVariant
           train_custom_dataset == SectionDatasets(v, globals).train
           dev_custom_dataset == SectionDatasets(v, globals).dev
           test_custom_dataset == SectionDatasets(v, globals).test
       IN /\ globals' = Rebind(globals,
                <<"train_custom_dataset", "dev_custom_dataset", "test_custom_dataset",
                  "train_dataloader", "dev_dataloader", "test_dataloader">>,
                <<train_custom_dataset, dev_custom_dataset, test_custom_dataset,
                  DataLoader(train_custom_dataset, NotebookBatchSize, TRUE),
                  DataLoader(dev_custom_dataset, NotebookBatchSize, FALSE),
                  DataLoader(test_custom_dataset, NotebookBatchSize, FALSE)>>)
          /\ log' = Append(log, <<"dataloaders",
                                  train_custom_dataset.inputs.name,
                                  dev_custom_dataset.inputs.name,
                                  test_custom_dataset.inputs.name>>)
    /\ cell' = cell + 1
    /\ UNCHANGED <<disk, models, optimizers, pc, frame>>

\* Line 275: from_pretrained returns a new encoder object in evaluation mode,
\* and the section's encoder name is bound to it.
CellFromPretrained ==
    /\ AtCell("from_pretrained")
    /\ LET v == CurrentVariant
       IN /\ models' = (v.encoder_obj :> Encoder(v.pretrained_layers, FALSE))
                       @@ models
          /\ globals' = Rebind(globals, <<v.encoder_var>>, <<v.encoder_obj>>)
          /\ log' = Append(log, <<"from_pretrained", v.encoder_var>>)
    /\ cell' = cell + 1
    /\ UNCHANGED <<disk, optimizers, pc, frame>>

\* Line 343 without line 344: the classifier is never put in training mode.
NewClassifierNoTrain(ms, id, model_name, bert) ==
    (id :> CNNLSTMClassifier(model_name, bert, DefaultNumClasses)) @@ ms

\* The statements of lines 343-344: construct the classifier object id over
\* the encoder object bert, then .train(), which reaches the encoder too.
NewClassifier(ms, id, model_name, bert) ==
    SetMode((id :> CNNLSTMClassifier(model_name, bert, DefaultNumClasses)) @@ ms,
            id, TRUE)

\* Lines 343-351: the classifier in training mode, criterion, an optimizer
\* over the classifier's parameters, device: 'cuda' if
\* torch.cuda.is_available() else 'cpu', the same answer in every section of
\* a run.
CellSetup ==
    /\ AtCell("setup")
    /\ \E device \in Devices :
       LET v == CurrentVariant
       IN /\ ("device" \in DOMAIN globals) => device = globals["device"]
          /\ models' = NewClassifier(models, v.model_obj, v.model_name,
                                     globals[v.encoder_var])
          /\ optimizers' = (v.optimizer_obj :> AdamW(v.model_obj)) @@ optimizers
          /\ globals' = Rebind(globals,
                <<v.model_var, "criterion", "optimizer", "device">>,
                <<v.model_obj, "CrossEntropyLoss", v.optimizer_obj, device>>)
          /\ log' = Append(log, <<"setup", v.model_obj, v.optimizer_obj>>)
    /\ cell' = cell + 1
    /\ UNCHANGED <<disk, pc, frame>>

\* Line 360: X_model = train_model(X_model, train_dataloader, criterion,
\* optimizer, num_epochs=1, accumulation_steps=10, device=device)
CellTrain ==
    /\ AtCell("train")
    /\ LET v == CurrentVariant
       IN /\ frame' = TrainFrame(globals[v.model_var], globals["train_dataloader"],
                                 globals["optimizer"], NotebookNumEpochs,
                                 NotebookAccumulationSteps, globals["device"],
                                 <<v.model_var>>)
          /\ log' = Append(log, <<"train_model", globals[v.model_var],
                                  globals["train_dataloader"].dataset.inputs.name,
                                  optimizers[globals["optimizer"]].params>>)
    /\ pc' = "train_model:enter"
    /\ UNCHANGED <<cell, globals, disk, models, optimizers>>

\* Line 369: torch.save(X_model, 'models/X_model.pt'): the classifier is
\* pickled with the encoder it refers to.
CellSaveModel ==
    /\ AtCell("save_model")
    /\ LET v == CurrentVariant
       IN /\ disk' = (v.model_file :> Module(models, globals[v.model_var])) @@ disk
          /\ log' = Append(log, <<"save_model", globals[v.model_var], v.model_file>>)
    /\ cell' = cell + 1
    /\ UNCHANGED <<globals, models, optimizers, pc, frame>>

\* Line 378: X_model = torch.load('models/X_model.pt'): new objects (a
\* classifier and its own encoder) with the pickled parameters and modes;
\* .grad is not pickled.
CellLoadModel ==
    /\ AtCell("load_model")
    /\ LET v == CurrentVariant
           pickled == disk[v.model_file]
       IN /\ models' = (v.loaded_obj :>
                          [pickled EXCEPT !.grad = {}, !.bert = v.loaded_encoder_obj])
                       @@ (v.loaded_encoder_obj :>
                             [pickled.bert EXCEPT !.grad = {}])
                       @@ models
          /\ globals' = Rebind(globals, <<v.model_var>>, <<v.loaded_obj>>)
          /\ log' = Append(log, <<"load_model", v.model_file, v.loaded_obj>>)
    /\ cell' = cell + 1
    /\ UNCHANGED <<disk, optimizers, pc, frame>>

\* Line 387: evaluate_model(X_model, dev_dataloader, device)
CellEvaluate ==
    /\ AtCell("evaluate")
    /\ LET v == CurrentVariant
       IN /\ frame' = PredictFrame("evaluate_model", globals[v.model_var],
                                   globals["dev_dataloader"], <<>>)
          /\ log' = Append(log, <<"evaluate_model", globals[v.model_var],
                                  globals["dev_dataloader"].dataset.inputs.name>>)
    /\ pc' = "evaluate_model:enter"
    /\ UNCHANGED <<cell, globals, disk, models, optimizers>>

\* Line 396: X_preds, X_true_labels = test_model(X_model, test_dataloader, device)
CellTest ==
    /\ AtCell("test")
    /\ LET v == CurrentVariant
       IN /\ frame' = PredictFrame("test_model", globals[v.model_var],
                                   globals["test_dataloader"],
                                   <<v.preds_var, v.true_labels_var>>)
          /\ log' = Append(log, <<"test_model", globals[v.model_var],
                                  globals["test_dataloader"].dataset.inputs.name>>)
    /\ pc' = "test_model:enter"
    /\ UNCHANGED <<cell, globals, disk, models, optimizers>>

\* Line 405: torch.save(X_preds, 'predictions/X_preds.pt')
CellSavePreds ==
    /\ AtCell("save_preds")
    /\ LET v == CurrentVariant
       IN /\ disk' = (v.preds_file :> globals[v.preds_var]) @@ disk
          /\ log' = Append(log, <<"save_preds", v.preds_file>>)
    /\ cell' = cell + 1
    /\ UNCHANGED <<globals, models, optimizers, pc, frame>>

NextNotebook ==
    \/ CellLoad
    \/ CellDataloaders
    \/ CellFromPretrained
    \/ CellSetup
    \/ CellTrain
    \/ CellSaveModel
    \/ CellLoadModel
    \/ CellEvaluate
    \/ CellTest
    \/ CellSavePreds
    \/ FunctionStep

SpecNotebook == InitNotebook /\ [][NextNotebook]_vars

\* ------------------------------------------------------ every use modelled
\* The program as both specifications above describe it: the three loop
\* functions called in any order on a constructed classifier, or the
\* notebook run top to bottom.

InitAll == Init \/ InitNotebook

NextAll ==
    \/ CallTrain
    \/ CallEvaluate
    \/ CallTest
    \/ CallModelTrain
    \/ CellLoad
    \/ CellDataloaders
    \/ CellFromPretrained
    \/ CellSetup
    \/ CellTrain
    \/ CellSaveModel
    \/ CellLoadModel
    \/ CellEvaluate
    \/ CellTest
    \/ CellSavePreds
    \/ FunctionStep

SpecAll == InitAll /\ [][NextAll]_vars

\* ------------------------------------- constructing and calling a classifier
\* A classifier is constructed with any name over an encoder of any depth and
\* mode, and its forward is called: the statements of forward one at a time.

ModelNames == {"distilbert", "tinybert", "electra", "roberta"}

InitForward ==
    /\ cell = 0
    /\ globals = <<>>
    /\ disk = <<>>
    /\ models = <<>>
    /\ optimizers = <<>>
    /\ pc = "idle"
    /\ frame = NoFrame
    /\ log = <<>>

\* CNNLSTMClassifier(model_name, bert, in_channels)
Construct ==
    /\ pc = "idle"
    /\ TheModel \notin DOMAIN models
    /\ \E model_name \in ModelNames, num_layers \in 1..MaxLayers,
          bert_training \in BOOLEAN :
         models' = (TheModel :>
                      CNNLSTMClassifier(model_name, TheEncoder, DefaultNumClasses))
                   @@ (TheEncoder :> Encoder(num_layers, bert_training))
    /\ UNCHANGED <<log, cell, globals, disk, optimizers, pc, frame>>

\* model(input_ids, attention_mask) on one batch, in either ambient grad mode.
CallForward ==
    /\ pc = "idle" /\ cell < MaxCalls
    /\ TheModel \in DOMAIN models
    /\ \E rows \in 1..MaxBatchSize, grad_enabled \in BOOLEAN :
         frame' = [fn |-> "forward", model |-> TheModel,
                   batch |-> Batch(AnyDataloader(rows, rows, FALSE), 0),
                   grad_enabled |-> grad_enabled,
                   hidden_states |-> <<>>, embeddings |-> <<>>,
                   hidden_graph |-> FALSE,
                   bert_graph |-> FALSE, head_graph |-> FALSE,
                   targets |-> <<>>, result |-> None, raised |-> None]
    /\ pc' = "forward:encoder"
    /\ UNCHANGED <<log, cell, globals, disk, models, optimizers>>

\* Lines 117-119: the encoder runs inside set_grad_enabled(self.bert.training):
\* grad recording is on in the block exactly when the encoder is in training
\* mode, whatever the caller's mode, and the hidden states carry a graph then.
forward_encoder ==
    /\ pc = "forward:encoder"
    /\ frame' = [frame EXCEPT
          !.hidden_states = HiddenStates(Module(models, frame.model).bert),
          !.hidden_graph = Module(models, frame.model).bert.training]
    /\ pc' = "forward:sum"
    /\ UNCHANGED <<log, cell, globals, disk, models, optimizers>>

\* Line 121: embeddings = sum_model_layers(self.model_name, hidden_states)
forward_sum ==
    /\ pc = "forward:sum"
    /\ LET s == sum_model_layers(models[frame.model].model_name, frame.hidden_states)
       IN IF s.raised # None
          THEN /\ pc' = "raised"
               /\ frame' = [frame EXCEPT !.raised = s.raised]
          ELSE /\ pc' = "forward:head"
               /\ frame' = [frame EXCEPT !.embeddings = s.summed]
    /\ UNCHANGED <<log, cell, globals, disk, models, optimizers>>

\* Lines 123-128: cnn, lstm, fc in the ambient grad mode; return logits, which
\* carry a graph only when the ambient mode records one: to the head's
\* parameters, and through the embeddings to the encoder's when those carry one.
forward_head ==
    /\ pc = "forward:head"
    /\ \E outputs \in LogitRows(models[frame.model], Len(frame.batch)) :
         frame' = [frame EXCEPT !.result = outputs,
                                !.bert_graph = frame.grad_enabled /\ frame.hidden_graph,
                                !.head_graph = frame.grad_enabled]
    /\ pc' = "returned"
    /\ UNCHANGED <<log, cell, globals, disk, models, optimizers>>

NextForward ==
    \/ Construct
    \/ CallForward
    \/ forward_encoder
    \/ forward_sum
    \/ forward_head
    \/ AssignResult

SpecForward == InitForward /\ [][NextForward]_vars

\* ====================================================================
\* Properties
\* ====================================================================

InTrain == frame.fn = "train_model" /\ pc # "train_model:enter"
InPredict == frame.fn \in {"evaluate_model", "test_model"}

\* The batches of the current train_model call whose step decision is made:
\* all batches of the finished epochs and batches 0..i-1 of the current one.
Decided ==
    LET n == LenDataloader(frame.dataloader)
    IN  {<<ep, i>> \in (0..frame.epoch) \X (0..(n - 1)) :
            \/ ep < frame.epoch
            \/ /\ pc \in {"train_model:batch", "train_model:check"}
               /\ i < frame.i}

\* The optimizer steps of this call that hold the gradient of batch i of epoch ep.
StepsHolding(ep, i) ==
    {k \in 1..Len(frame.steps) :
        \E c \in frame.steps[k].group : c.epoch = ep /\ c.batch = i}

\* C1: in train_model with n >= 1 batches and accumulation_steps a, an
\* optimizer step follows the backward pass of batch i, before the next
\* batch, if and only if (i+1) mod a = 0 or i+1 = n; so every batch's
\* gradient is in exactly one optimizer step (once its group is closed, and
\* in the accumulated gradient until then), and no step holds more than a
\* batches.
C1_StepAfterExactlyTheDueBatches ==
    InTrain =>
      LET n == LenDataloader(frame.dataloader)
          a == frame.accumulation_steps
          m == Module(models, frame.model)
      IN /\ \A d \in Decided :
              LET holding == StepsHolding(d[1], d[2])
              IN /\ (\E k \in 1..Len(frame.steps) :
                        frame.steps[k].epoch = d[1] /\ frame.steps[k].after = d[2])
                    <=> (((d[2] + 1) % a = 0) \/ (d[2] + 1 = n))
                 /\ Cardinality(holding) <= 1
                 /\ (holding = {})
                    <=> (\E c \in m.grad : c.epoch = d[1] /\ c.batch = d[2])
                 /\ (pc \in {"train_model:epoch", "returned"}) =>
                       Cardinality(holding) = 1
         /\ \A k \in 1..Len(frame.steps) :
              /\ Cardinality(frame.steps[k].group) <= a
              /\ \E c \in frame.steps[k].group :
                    c.epoch = frame.steps[k].epoch /\ c.batch = frame.steps[k].after
              /\ \A c \in frame.steps[k].group : c.data # "stale"
         /\ (pc \in {"train_model:epoch", "returned"}) => m.grad = {}

\* C1 witness: a call that returned after two epochs of three batches with
\* accumulation_steps = 2: a full group and a tail group in each epoch.
C1_Witness ==
    /\ pc = "returned" /\ frame.fn = "train_model"
    /\ LenDataloader(frame.dataloader) = 3
    /\ frame.accumulation_steps = 2
    /\ frame.num_epochs = 2
    /\ Len(frame.steps) = 4
    /\ Cardinality(frame.steps[1].group) = 2
    /\ Cardinality(frame.steps[2].group) = 1

\* The sum of the loss scaling factors 1/divisor of the contributions of a group.
RECURSIVE ScaleSum(_)
ScaleSum(group) ==
    IF group = {} THEN Rat(0, 1)
    ELSE LET c == CHOOSE x \in group : TRUE
         IN  RatAdd(Rat(1, c.divisor), ScaleSum(group \ {c}))

\* C2: every optimizer step of train_model applies the gradient of the
\* average of the per-batch losses of its group: the scaling factors of the
\* batches accumulated in the group sum to exactly 1, for a full group and
\* for the shorter last group of an epoch.
C2_GroupScalesSumToOne ==
    InTrain =>
      \A k \in 1..Len(frame.steps) : ScaleSum(frame.steps[k].group) = Rat(1, 1)

\* The least q with q * a >= n.
CeilOf(n, a) == CHOOSE q \in 0..n : q * a >= n /\ (q = 0 \/ (q - 1) * a < n)

\* C7: train_model over n >= 1 batches with accumulation_steps a and
\* num_epochs e makes exactly ceil(n / a) optimizer steps in every epoch and
\* e * ceil(n / a) in total.
C7_StepCount ==
    (InTrain /\ LenDataloader(frame.dataloader) >= 1) =>
      LET n == LenDataloader(frame.dataloader)
          a == frame.accumulation_steps
          StepsOf(ep) == {k \in 1..Len(frame.steps) : frame.steps[k].epoch = ep}
      IN /\ \A ep \in 0..(frame.epoch - 1) : Cardinality(StepsOf(ep)) = CeilOf(n, a)
         /\ (pc = "train_model:epoch") => Len(frame.steps) = frame.epoch * CeilOf(n, a)
         /\ (pc = "returned") =>
              /\ frame.epoch = frame.num_epochs
              /\ Len(frame.steps) = frame.num_epochs * CeilOf(n, a)

\* C7 witness: two epochs of three batches with accumulation_steps = 2 have
\* returned with 2 * 2 steps made.
C7_Witness ==
    /\ pc = "returned" /\ frame.fn = "train_model"
    /\ LenDataloader(frame.dataloader) = 3
    /\ frame.accumulation_steps = 2
    /\ frame.num_epochs = 2
    /\ Len(frame.steps) = 4
    /\ optimizers[frame.optimizer].step_count >= 4

\* C5: with num_classes = 2 every row of logits forward returns has exactly
\* 2 entries, and every prediction of evaluate_model and test_model is a
\* class index in {0, 1} whose logit is >= the other class's logit.
C5_BinaryArgmax ==
    InPredict =>
      LET off == Len(frame.predictions) - Len(frame.outputs)
      IN /\ Module(models, frame.model).num_classes = 2
         /\ \A k \in 1..Len(frame.outputs) : DOMAIN frame.outputs[k] = 1..2
         /\ \A j \in 1..Len(frame.predictions) : frame.predictions[j].class \in {0, 1}
         /\ off >= 0
         /\ \A k \in 1..Len(frame.outputs) :
              LET c == frame.predictions[off + k].class
              IN  frame.outputs[k][c + 1] >= frame.outputs[k][2 - c]

\* C5 witness: a batch of two inputs, one with tied logits predicted 0 and
\* one with the larger logit on class 1 predicted 1.
C5_Witness ==
    /\ InPredict /\ Len(frame.outputs) = 2 /\ Len(frame.predictions) >= 2
    /\ frame.outputs[1] = <<1, 1>> /\ frame.outputs[2] = <<0, 1>>
    /\ frame.predictions[Len(frame.predictions) - 1].class = 0
    /\ frame.predictions[Len(frame.predictions)].class = 1

\* What training changes: the parameter values and accumulated gradients of
\* every module, classifier heads and encoders.
Trainable ==
    [id \in DOMAIN models |->
        [version |-> models[id].version, fitted |-> models[id].fitted,
         grad |-> models[id].grad]]

\* What a step of evaluate_model or test_model leaves alone.
C6_PredictStep ==
    /\ InPredict => (Trainable' = Trainable /\ optimizers' = optimizers)
    /\ (InPredict' /\ frame'.last_forward.ran) =>
          /\ ~frame'.last_forward.head_graph /\ ~frame'.last_forward.bert_graph
          /\ ~frame'.last_forward.hidden_graph

\* The files of the held-out (dev and test) splits.
HeldOutFiles ==
    {Variants[k].dev_inputs_file : k \in 1..Len(Variants)}
    \cup {Variants[k].test_inputs_file : k \in 1..Len(Variants)}
    \cup {DevLabelsFile, TestLabelsFile}

\* The dataloaders over the held-out splits that exist.
HeldOutDataloaders ==
    {globals[name] : name \in {"dev_dataloader", "test_dataloader"} \cap DOMAIN globals}

\* train_model never receives a dev or test dataloader: the dataloader of
\* every train_model call is none of the held-out dataloaders and reads no
\* held-out file, in the notebook it is train_dataloader, every logged
\* train_model call names a train file, and no module is ever fitted on a
\* held-out file; evaluate_model and test_model receive the dev and the test
\* dataloader.
C6_HeldOutNotTrainedOn ==
    /\ (frame.fn = "train_model") =>
          /\ frame.dataloader \notin HeldOutDataloaders
          /\ frame.dataloader.dataset.inputs.name \notin HeldOutFiles
          /\ frame.dataloader.dataset.labels.name \notin HeldOutFiles
          /\ ("train_dataloader" \in DOMAIN globals) =>
                frame.dataloader = globals["train_dataloader"]
    /\ (frame.fn = "evaluate_model" /\ "dev_dataloader" \in DOMAIN globals) =>
          (frame.dataloader = globals["dev_dataloader"]
           /\ frame.dataloader.dataset.inputs.name = CurrentVariant.dev_inputs_file)
    /\ (frame.fn = "test_model" /\ "test_dataloader" \in DOMAIN globals) =>
          (frame.dataloader = globals["test_dataloader"]
           /\ frame.dataloader.dataset.inputs.name = CurrentVariant.test_inputs_file)
    /\ \A k \in 1..Len(log) :
          (log[k][1] = "train_model") =>
              log[k][3] \in {Variants[j].train_inputs_file : j \in 1..Len(Variants)}
    /\ \A id \in DOMAIN models : models[id].fitted \cap HeldOutFiles = {}

\* C6: evaluation on the held-out splits never trains.  No step of
\* evaluate_model or test_model, over any number of batches, changes model
\* parameters, accumulated gradients or optimizer state, and the forward
\* passes they make record no graph a backward pass could use; and the dev
\* and test dataloaders are never passed to train_model.
C6_PredictDoesNotTrain ==
    /\ [][C6_PredictStep]_vars
    /\ []C6_HeldOutNotTrainedOn

\* In the notebook: test_model runs in the third section on the section's
\* test dataloader, after three train_model calls, each on a train file.
C6_Notebook ==
    /\ pc = "test_model:batch" /\ frame.b = 1
    /\ "test_dataloader" \in DOMAIN globals
    /\ frame.dataloader = globals["test_dataloader"]
    /\ frame.dataloader.dataset.inputs.name = Variants[3].test_inputs_file
    /\ Len(SelectSeq(log, LAMBDA e : e[1] = "train_model")) = 3
    /\ Module(models, frame.model).fitted = {Variants[3].train_inputs_file}

\* C6 witness: test_model has processed two batches on a model that was
\* trained before and whose optimizer has stepped.
C6_Witness ==
    /\ pc = "test_model:batch" /\ frame.b = 2
    /\ Module(models, frame.model).version >= 1
    /\ optimizers[TheOptimizer].step_count >= 1

\* C8: in evaluate_model and test_model over a sequential dataloader of N
\* examples, predictions and true_labels have equal length after each batch
\* and length N after the last; entry j of each belongs to example j; and
\* test_model returns (predictions, true_labels) in that order.
C8_PredictionsAlignWithLabels ==
    InPredict =>
      LET ds == frame.dataloader.dataset
          N == DatasetLen(ds)
      IN /\ Len(frame.predictions) = Len(frame.true_labels)
         /\ Len(frame.predictions) = Min(frame.b * frame.dataloader.batch_size, N)
         /\ \A j \in 1..Len(frame.predictions) :
              /\ frame.predictions[j].of = <<ds.inputs.name, j - 1>>
              /\ frame.true_labels[j] = <<ds.labels.name, j - 1>>
         /\ (pc = "returned") =>
              /\ Len(frame.predictions) = N
              /\ (frame.fn = "test_model") =>
                    (frame.result = <<frame.predictions, frame.true_labels>>)

\* C8 witness: test_model returned over 3 examples in batches of 2 (a full
\* batch and a shorter last one).
C8_Witness ==
    /\ pc = "returned" /\ frame.fn = "test_model"
    /\ DatasetLen(frame.dataloader.dataset) = 3
    /\ frame.dataloader.batch_size = 2
    /\ frame.b = 2
    /\ Len(frame.result[1]) = 3

\* What the claim says one section does, in order, with the arguments of
\* each call.
ExpectedSection(v) ==
    <<<<"load", v.train_inputs_file, v.dev_inputs_file, v.test_inputs_file>>,
      <<"dataloaders", v.train_inputs_file, v.dev_inputs_file, v.test_inputs_file>>,
      <<"from_pretrained", v.encoder_var>>,
      <<"setup", v.model_obj, v.optimizer_obj>>,
      <<"train_model", v.model_obj, v.train_inputs_file, v.model_obj>>,
      <<"save_model", v.model_obj, v.model_file>>,
      <<"load_model", v.model_file, v.loaded_obj>>,
      <<"evaluate_model", v.loaded_obj, v.dev_inputs_file>>,
      <<"test_model", v.loaded_obj, v.test_inputs_file>>,
      <<"save_preds", v.preds_file>>>>

ExpectedLog ==
    ExpectedSection(Variants[1]) \o ExpectedSection(Variants[2])
        \o ExpectedSection(Variants[3])

\* C3: the notebook run top to bottom does, for DistilBERT, then TinyBERT,
\* then ELECTRA: load the variant's inputs, build its dataloaders, construct
\* model and optimizer over that model, train, save, reload, evaluate on dev,
\* test on test, save the predictions; every call reads the bindings of its
\* own section, so each saved prediction file holds the predictions, on the
\* variant's test inputs, of the model trained on the variant's train inputs.
C3_SectionsInOrderOnOwnBindings ==
    /\ Len(log) <= Len(ExpectedLog)
    /\ log = SubSeq(ExpectedLog, 1, Len(log))
    /\ (frame.fn = "train_model") =>
          /\ frame.dataloader = globals["train_dataloader"]
          /\ frame.dataloader.dataset.inputs.name = CurrentVariant.train_inputs_file
          /\ frame.optimizer = globals["optimizer"]
          /\ optimizers[frame.optimizer].params = frame.model
          /\ Module(models, frame.model).model_name = CurrentVariant.model_name
    /\ (frame.fn \in {"evaluate_model", "test_model"}) =>
          /\ frame.model = CurrentVariant.loaded_obj
          /\ Module(models, frame.model).model_name = CurrentVariant.model_name
          /\ Module(models, frame.model).fitted = {CurrentVariant.train_inputs_file}
          /\ Module(models, frame.model).bert.fitted = {CurrentVariant.train_inputs_file}
          /\ \A j \in 1..Len(frame.predictions) :
                frame.predictions[j].of[1] = frame.dataloader.dataset.inputs.name
    /\ \A k \in 1..Len(Variants) :
          LET v == Variants[k]
          IN  (v.preds_file \in DOMAIN disk) =>
                /\ disk[v.preds_file] = globals[v.preds_var]
                /\ Len(disk[v.preds_file]) = disk[v.test_inputs_file].rows
                /\ \A j \in 1..Len(disk[v.preds_file]) :
                      disk[v.preds_file][j].of = <<v.test_inputs_file, j - 1>>
                /\ models[v.loaded_obj].fitted = {v.train_inputs_file}
                /\ Module(models, v.loaded_obj) =
                      [disk[v.model_file] EXCEPT !.training = FALSE,
                                                 !.bert.training = FALSE]

\* C3 witness: the whole notebook has run and the three prediction files exist.
C3_Witness ==
    /\ cell = NotebookLen /\ pc = "idle"
    /\ \A k \in 1..Len(Variants) : Variants[k].preds_file \in DOMAIN disk
    /\ Len(log) = Len(ExpectedLog)

\* C4: in the notebook every model is in training mode throughout its
\* train_model call, so every training forward runs the encoder with grad
\* recording enabled, every backward leaves a gradient on the encoder's
\* parameters, and the optimizer that steps holds the model's (and so the
\* encoder's) parameters and updates the encoder with every step.
C4_EncoderIsFineTuned ==
    (frame.fn = "train_model") =>
      LET m == Module(models, frame.model)
      IN /\ m.training /\ m.bert.training
         /\ optimizers[frame.optimizer].params = frame.model
         /\ frame.last_forward.ran => frame.last_forward.bert_graph
         /\ (pc = "train_model:check") =>
               \E c \in m.bert.grad : c.epoch = frame.epoch /\ c.batch = frame.i
         /\ \A k \in 1..Len(frame.steps) :
               /\ frame.steps[k].bert_group # {}
               /\ frame.steps[k].bert_group = frame.steps[k].group
         /\ m.bert.version = Len(frame.steps)
         /\ m.version = Len(frame.steps)
         /\ models[frame.model].bert = globals[CurrentVariant.encoder_var]
         /\ models[globals[CurrentVariant.encoder_var]].version = Len(frame.steps)

\* C4 witness: the ELECTRA model's train_model call has returned with the
\* encoder's parameters updated.
C4_Witness ==
    /\ pc = "returned" /\ frame.fn = "train_model"
    /\ Module(models, frame.model).model_name = "electra"
    /\ Module(models, frame.model).bert.version >= 1
    /\ Module(models, frame.model).bert.fitted = {"intermediates/EL_inputs.pt"}

\* The number of transformer layers the claims give for each encoder.
ClaimedLayers(model_name) ==
    IF model_name = "distilbert" THEN 6
    ELSE IF model_name = "tinybert" THEN 4
    ELSE IF model_name = "electra" THEN 12
    ELSE 0

\* C10: for each encoder as the notebook loads it (DistilBERT 6 layers,
\* TinyBERT 4, ELECTRA-small 12) the encoder returns L+1 hidden states and
\* sum_model_layers sums exactly the outputs of layers 1..L, never the
\* embedding output (hidden state 0).
C10_SumsAllLayersWithoutEmbedding ==
    /\ \A id \in ClassifiersOf(models) :
          Module(models, id).bert.num_layers = ClaimedLayers(models[id].model_name)
    /\ (frame.fn # None /\ frame.last_forward.ran) =>
          LET L == ClaimedLayers(Module(models, frame.model).model_name)
              f == frame.last_forward
          IN /\ f.raised = None
             /\ f.n_hidden = L + 1
             /\ f.summed = [k \in 1..L |-> k]
             /\ \A k \in 1..Len(f.summed) : f.summed[k] # 0

\* C10 witness: a forward of the ELECTRA classifier in test_model summed 12
\* hidden states, and one of the TinyBERT classifier summed 4.
C10_Witness ==
    /\ frame.fn = "test_model" /\ frame.last_forward.ran
    /\ Module(models, frame.model).model_name = "electra"
    /\ Len(frame.last_forward.summed) = 12
    /\ frame.last_forward.n_hidden = 13

\* The number of hidden states the claim gives for each supported name.
ClaimedSummed(model_name) ==
    IF model_name = "distilbert" THEN 6
    ELSE IF model_name = "tinybert" THEN 4
    ELSE 12

SupportedNames == {"distilbert", "tinybert", "electra"}

\* C9: sum_model_layers sums the last 6 / 4 / 12 hidden states for
\* 'distilbert' / 'tinybert' / 'electra' (all of them when the encoder
\* returns fewer) and raises ValueError, returning nothing, for any other
\* name; the constructor accepts any name, so a classifier with an
\* unsupported name exists and fails in its first forward call, after the
\* encoder has run.
C9_SumOrValueError ==
    /\ (frame.fn = "forward" /\ pc \in {"forward:head", "returned"}) =>
          LET name == Module(models, frame.model).model_name
              hs == frame.hidden_states
              emb == frame.embeddings
          IN /\ name \in SupportedNames
             /\ Len(emb) = Min(ClaimedSummed(name), Len(hs))
             /\ \A j \in 1..Len(emb) : emb[j] = hs[Len(hs) - Len(emb) + j]
    /\ (frame.fn = "forward" /\ pc = "raised") =>
          /\ Module(models, frame.model).model_name \notin SupportedNames
          /\ frame.raised = "ValueError"
          /\ Len(frame.hidden_states) = Module(models, frame.model).bert.num_layers + 1
          /\ frame.embeddings = <<>>
          /\ frame.result = None
          /\ frame.hidden_graph = Module(models, frame.model).bert.training
          /\ ~frame.bert_graph /\ ~frame.head_graph
          /\ cell = 0
    /\ (frame.fn = "forward" /\ pc = "forward:sum") => Len(frame.hidden_states) >= 2
    /\ \A id \in ClassifiersOf(models) :
          (models[id].model_name \notin SupportedNames) =>
              (cell = 0 /\ pc \notin {"forward:head", "returned"})

\* C9 witness: a classifier named 'roberta' was constructed and its first
\* forward raised ValueError with the encoder's hidden states computed.
C9_Witness ==
    /\ pc = "raised" /\ frame.fn = "forward"
    /\ models[TheModel].model_name = "roberta"
    /\ frame.raised = "ValueError"
    /\ Len(frame.hidden_states) = 7

\* The gradients accumulated on a model's parameters, head and encoder.
Grads(m) == m.grad \cup m.bert.grad

\* The gradients an optimizer step of the current call applied.
StepGrads(k) == frame.steps[k].group \cup frame.steps[k].bert_group

\* C11: gradient groups of train_model never leak across a boundary.  From
\* the first batch on, the parameters carry no gradient they had at the call
\* and only gradients of batches of the current epoch, so the first step
\* (and every step) applies only gradients of this call, each of its own
\* epoch and of batches after the previous step; the last batch of every
\* epoch is followed by a step, which leaves no gradient for the next
\* epoch; and a call that returns after at least one batch leaves no
\* gradient on the parameters, every backward pass being in a step.
C11_GradientGroupsDoNotLeak ==
    InTrain =>
      LET n == LenDataloader(frame.dataloader)
          a == frame.accumulation_steps
          m == Module(models, frame.model)
          name == frame.dataloader.dataset.inputs.name
      IN /\ Grads(m) \cap Grads(frame.entry) = {}
         /\ \A c \in Grads(m) :
               /\ c.data = name /\ c.divisor = a
               /\ c.epoch = frame.epoch
               /\ c.batch <= frame.i /\ c.batch < n
         /\ \A k \in 1..Len(frame.steps) :
               /\ StepGrads(k) \cap Grads(frame.entry) = {}
               /\ \A c \in StepGrads(k) :
                     /\ c.data = name
                     /\ c.epoch = frame.steps[k].epoch
                     /\ c.batch <= frame.steps[k].after
                     /\ (k > 1 /\ frame.steps[k - 1].epoch = c.epoch) =>
                           c.batch > frame.steps[k - 1].after
         /\ (Len(frame.steps) >= 1) =>
               /\ frame.steps[1].epoch = 0
               /\ \A c \in StepGrads(1) : c.epoch = 0 /\ c.data # "stale"
         /\ \A ep \in 0..(frame.epoch - 1) :
               (n >= 1) => \E k \in 1..Len(frame.steps) :
                              /\ frame.steps[k].epoch = ep
                              /\ frame.steps[k].after = n - 1
         /\ (pc = "train_model:epoch") => Grads(m) = {}
         /\ (pc = "train_model:batch" /\ frame.i = 0) => Grads(m) = {}
         /\ (pc = "returned" /\ frame.backwards >= 1) =>
               /\ Grads(m) = {}
               /\ frame.backwards = frame.num_epochs * n
               /\ \A ep \in 0..(frame.num_epochs - 1), i \in 0..(n - 1) :
                     \E k \in 1..Len(frame.steps) :
                        \E c \in frame.steps[k].group : c.epoch = ep /\ c.batch = i

\* C11 witness: a call that found gradients on the head's and the encoder's
\* parameters has returned after two epochs of three batches with
\* accumulation_steps = 2, the encoder training, and no gradient is left.
C11_Witness ==
    /\ pc = "returned" /\ frame.fn = "train_model"
    /\ frame.entry.grad # {} /\ frame.entry.bert.grad # {}
    /\ LenDataloader(frame.dataloader) = 3
    /\ frame.accumulation_steps = 2 /\ frame.num_epochs = 2
    /\ frame.backwards = 6 /\ Len(frame.steps) = 4
    /\ frame.steps[1].bert_group # {}
    /\ Grads(Module(models, frame.model)) = {}

\* The training flags of a model and of its encoder.
Mode(m) == <<m.training, m.bert.training>>

\* What holds of the mode in every state of a call.
C12_ModeInCalls ==
    /\ (frame.fn = "train_model") =>
          Mode(Module(models, frame.model)) = Mode(frame.entry)
    /\ (InPredict /\ pc \notin {"evaluate_model:enter", "test_model:enter"}) =>
          Mode(Module(models, frame.model)) = <<FALSE, FALSE>>

\* A train_model call on a model whose encoder is in evaluation mode: no
\* forward records a graph into the encoder, the encoder's parameters have
\* no gradient from the first batch on, and every step updates the head and
\* not the encoder.
C12_FrozenEncoder ==
    (InTrain /\ ~frame.entry.bert.training) =>
      LET m == Module(models, frame.model)
      IN /\ frame.last_forward.ran =>
               /\ frame.last_forward.head_graph /\ ~frame.last_forward.bert_graph
               /\ ~frame.last_forward.hidden_graph
         /\ m.bert.grad = {}
         /\ \A k \in 1..Len(frame.steps) :
               frame.steps[k].bert_group = {} /\ frame.steps[k].group # {}
         /\ m.bert.version = frame.entry.bert.version
         /\ m.bert.fitted = frame.entry.bert.fitted
         /\ m.version = frame.entry.version + Len(frame.steps)

\* A train_model call that received the whole model in evaluation mode, as
\* evaluate_model and test_model leave it, runs its backward passes and its
\* optimizer steps: no backward pass raises, every batch that was forwarded
\* has its gradient on the head or in a step, and a call that returned after
\* at least one batch has made a step.
C12_FrozenCallSteps ==
    (InTrain /\ Mode(frame.entry) = <<FALSE, FALSE>>) =>
      /\ frame.raised # "RuntimeError"
      /\ (pc = "train_model:check") =>
            \E c \in Module(models, frame.model).grad :
                c.epoch = frame.epoch /\ c.batch = frame.i
      /\ (pc = "returned" /\ frame.num_epochs >= 1) => frame.steps # <<>>

\* What the backward pass of line 166 does in a train_model call.  On 'cuda'
\* with the head in evaluation mode the first backward pass raises
\* RuntimeError: the call ends there, with no batch completed, no optimizer
\* step and the parameters of head and encoder as received.  In every other
\* call no backward pass raises, every forwarded batch has its gradient on
\* the head until a step takes it, and a call that returned after at least
\* one batch has made a step.
C12_BackwardOrRaise ==
    InTrain =>
      LET m == Module(models, frame.model)
          n == LenDataloader(frame.dataloader)
      IN IF frame.device = "cuda" /\ ~frame.entry.training
         THEN /\ pc # "train_model:check"
              /\ frame.steps = <<>> /\ frame.backwards = 0
              /\ m.version = frame.entry.version
              /\ m.bert.version = frame.entry.bert.version
              /\ m.bert.grad = {}
              /\ (frame.raised = "RuntimeError") <=>
                    (pc = "raised" /\ n >= 1 /\ frame.num_epochs >= 1)
              /\ (frame.raised = "RuntimeError") =>
                    /\ frame.epoch = 0 /\ frame.i = 0
                    /\ frame.last_forward.ran /\ frame.last_forward.head_graph
                    /\ frame.result = None
         ELSE /\ frame.raised # "RuntimeError"
              /\ (pc = "train_model:check") =>
                    \E c \in m.grad : c.epoch = frame.epoch /\ c.batch = frame.i
              /\ (pc = "returned" /\ frame.num_epochs >= 1 /\ n >= 1) =>
                    frame.steps # <<>>

\* The steps that change a mode: model.eval() at the entry of
\* evaluate_model or test_model, and the caller's model.train().
C12_ModeStep ==
    \A id \in ClassifiersOf(models) :
       (Mode(Module(models', id)) # Mode(Module(models, id))) =>
          \/ /\ pc \in {"evaluate_model:enter", "test_model:enter"}
             /\ frame.model = id
             /\ Mode(Module(models', id)) = <<FALSE, FALSE>>
          \/ /\ pc = "idle" /\ pc' = "idle"
             /\ Mode(Module(models', id)) = <<TRUE, TRUE>>

\* The statement of C12 as the claim makes it: train_model never changes
\* the model's mode; evaluate_model and test_model put the model (and its
\* encoder) in evaluation mode and it is still in evaluation mode after they
\* returned, until model.train() is called; so a train_model call that
\* follows one of them on the same model without model.train() in between
\* runs the encoder without gradient recording, and its optimizer steps run
\* and update the head only, leaving the encoder's parameters without
\* gradient.
C12_ModePersistsAndFreezesEncoder ==
    /\ [](C12_ModeInCalls /\ C12_FrozenEncoder /\ C12_FrozenCallSteps)
    /\ [][C12_ModeStep]_vars

\* C12 (amended): train_model never changes the model's mode; evaluate_model
\* and test_model put the model (and its encoder) in evaluation mode and it
\* is still in evaluation mode after they returned, until model.train() is
\* called; a train_model call on a model whose encoder is in evaluation mode
\* runs the encoder without gradient recording and leaves the encoder's
\* parameters unchanged and without gradient, and whatever optimizer steps it
\* makes update the head only.  When the head is in evaluation mode too (the
\* call follows evaluate_model or test_model without model.train()), the
\* call makes those steps on 'cpu'; on 'cuda' the first loss.backward()
\* raises RuntimeError and the call makes no step at all.
C12_ModePersistsEncoderFrozenOrBackwardRaises ==
    /\ [](C12_ModeInCalls /\ C12_FrozenEncoder /\ C12_BackwardOrRaise)
    /\ [][C12_ModeStep]_vars

\* C12 witness: the model was constructed in training mode over a training
\* encoder, evaluate_model or test_model ran, and a train_model call on
\* 'cuda' that received the model in evaluation mode has raised RuntimeError
\* in the backward pass of its first batch, after a forward that recorded a
\* graph for the head and none for the encoder, with no step made.
C12_Witness ==
    /\ pc = "raised" /\ frame.fn = "train_model" /\ cell = 1
    /\ Mode(frame.entry) = <<FALSE, FALSE>>
    /\ frame.device = "cuda" /\ frame.raised = "RuntimeError"
    /\ frame.last_forward.ran /\ frame.last_forward.head_graph
    /\ ~frame.last_forward.hidden_graph /\ ~frame.last_forward.bert_graph
    /\ frame.steps = <<>>
    /\ Module(models, frame.model).version = frame.entry.version
    /\ Module(models, frame.model).bert.grad = {}

\* The same call on 'cpu': it has returned after two steps that updated the
\* head and not the encoder.
C12_StepsOnCpu ==
    /\ pc = "returned" /\ frame.fn = "train_model" /\ cell = 1
    /\ Mode(frame.entry) = <<FALSE, FALSE>> /\ frame.device = "cpu"
    /\ Len(frame.steps) = 2
    /\ Module(models, frame.model).version = 2
    /\ Module(models, frame.model).bert.version = 0
    /\ Module(models, frame.model).fitted # {} /\ Module(models, frame.model).bert.fitted = {}

\* Whether a is a power of two.
RECURSIVE IsPow2(_)
IsPow2(a) == a = 1 \/ (a > 1 /\ a % 2 = 0 /\ IsPow2(a \div 2))

\* The integer part of x * 2^26, for a double x of the model's range.
Scaled26(x) ==
    LET t == x.den_exp - 26
    IN  IF t < 0 THEN (x.num_hi * Limb + x.num_lo) * Pow2(0 - t)
        ELSE IF t < 26 THEN x.num_hi * Pow2(26 - t) + (x.num_lo \div Pow2(t))
        ELSE x.num_hi \div Pow2(t - 26)

Abs(n) == IF n < 0 THEN 0 - n ELSE n

\* The statement of C13 as the claim makes it: the running total is exactly
\* the sum of the criterion values of the epoch so far (the division by
\* accumulation_steps is undone), so avg_loss is the mean of the n values
\* (their sum divided by n, as a double) for every accumulation_steps; the
\* total is 0 when an epoch's first batch begins.
C13_ReportedLossIsMeanOfUnscaledLosses ==
    InTrain =>
      LET n == LenDataloader(frame.dataloader)
          sum == Rat(frame.criterion_sum, 1)
      IN /\ (pc \in {"train_model:batch", "train_model:check"}) =>
               frame.total_loss = sum
         /\ (pc = "train_model:batch" /\ frame.i = 0) => frame.total_loss.num = 0
         /\ (pc \in {"train_model:epoch", "returned"} /\ frame.epoch >= 1) =>
               frame.avg_loss = Float64Div(sum, n)

\* C13 (amended): the loss train_model reports for an epoch is the mean of
\* the unscaled per-batch losses of that epoch up to the rounding of the
\* float32 division loss / accumulation_steps: the running total is within a
\* relative 2^-23 of the sum of the criterion values of the epoch so far, and
\* avg_loss within a relative 2^-23 of their mean; when accumulation_steps
\* is a power of two the total is exactly that sum and avg_loss exactly the
\* sum divided by n as a double; the total is 0 when an epoch's first batch
\* begins, and avg_loss is total_loss / n over the n batches of the epoch.
C13_ReportedLossIsMeanUpToRounding ==
    InTrain =>
      LET n == LenDataloader(frame.dataloader)
          a == frame.accumulation_steps
          S == frame.criterion_sum
          total == frame.total_loss
          ended == pc \in {"train_model:epoch", "returned"} /\ frame.epoch >= 1
      IN /\ (pc \in {"train_model:batch", "train_model:check"} \/ ended) =>
               /\ Abs(total.num - S * total.den) <= (S * total.den) \div Significand32
               /\ IsPow2(a) => total = Rat(S, 1)
               /\ S >= frame.i + (IF pc = "train_model:check" THEN 1 ELSE 0)
         /\ (pc = "train_model:batch" /\ frame.i = 0) =>
               (total.num = 0 /\ S = 0)
         /\ ended =>
               /\ frame.i = n
               /\ Abs(Scaled26(frame.avg_loss) * n - S * Limb) + n <= 8 * S
               /\ IsPow2(a) => frame.avg_loss = Float64Div(Rat(S, 1), n)
         /\ (frame.epoch = 0) => frame.avg_loss = None

\* C13 witness: the second epoch of a call over three batches with
\* accumulation_steps = 3 has ended with criterion values summing to 5; the
\* total is not 5 and the reported loss is not the double 5/3.
C13_Witness ==
    /\ pc = "returned" /\ frame.fn = "train_model"
    /\ frame.num_epochs = 2 /\ frame.epoch = 2
    /\ frame.accumulation_steps = 3
    /\ LenDataloader(frame.dataloader) = 3
    /\ frame.criterion_sum = 5
    /\ frame.total_loss # Rat(5, 1)
    /\ frame.avg_loss # Float64Div(Rat(5, 1), 3)

\* A model with the gradients of its parameters cleared.
Cleared(m) == [m EXCEPT !.grad = {}, !.bert.grad = {}]

\* A train_model call over 0 batches with num_epochs >= 1: nothing is
\* trained, the first epoch raises ZeroDivisionError and nothing is returned.
C14_NoBatches ==
    (frame.fn = "train_model" /\ LenDataloader(frame.dataloader) = 0
        /\ frame.num_epochs >= 1) =>
      /\ frame.backwards = 0 /\ frame.steps = <<>>
      /\ ~frame.last_forward.ran
      /\ frame.epoch = 0 /\ frame.avg_loss = None
      /\ pc \in {"train_model:enter", "train_model:epoch", "train_model:batch",
                 "raised"}
      /\ (pc = "raised") <=> (frame.raised = "ZeroDivisionError")
      /\ frame.result = None
      /\ InTrain => Module(models, frame.model) = Cleared(frame.entry)

\* A train_model call with num_epochs = 0, over any dataloader: the model is
\* returned as received, apart from cleared gradients.
C14_NoEpochs ==
    (frame.fn = "train_model" /\ frame.num_epochs = 0) =>
      /\ frame.backwards = 0 /\ frame.steps = <<>>
      /\ ~frame.last_forward.ran
      /\ pc \in {"train_model:enter", "train_model:epoch", "returned"}
      /\ frame.raised = None
      /\ InTrain => Module(models, frame.model) = Cleared(frame.entry)
      /\ (pc = "returned") => frame.result = frame.model

\* What a step of such a call leaves alone, and what follows a raise: a call
\* without batches or without epochs never changes the optimizer, and after
\* an exception no statement of the function or of its caller runs.
C14_Step ==
    /\ pc # "raised"
    /\ (frame.fn = "train_model"
          /\ (LenDataloader(frame.dataloader) = 0 \/ frame.num_epochs = 0)) =>
          optimizers' = optimizers

\* C14: train_model over a dataloader of 0 batches with num_epochs >= 1
\* makes no backward pass and no optimizer step, and its first epoch ends in
\* a ZeroDivisionError at avg_loss, so the model is not returned; with
\* num_epochs = 0 it returns the model unchanged apart from cleared
\* gradients.
C14_EmptyDataloaderRaisesNoEpochsReturns ==
    /\ [](C14_NoBatches /\ C14_NoEpochs)
    /\ [][C14_Step]_vars

\* C14 witness: a call over 0 batches with num_epochs = 2, on a model that
\* carried gradients, has raised ZeroDivisionError in its first epoch.
C14_Witness ==
    /\ pc = "raised" /\ frame.fn = "train_model"
    /\ LenDataloader(frame.dataloader) = 0 /\ frame.num_epochs = 2
    /\ frame.raised = "ZeroDivisionError"
    /\ frame.epoch = 0 /\ frame.result = None
    /\ frame.entry.grad # {}
    /\ Module(models, frame.model).grad = {}

====
